---- MODULE Spec2Model ----
(***************************************************************************)
(* Model of util::worker (src/src/util/worker/mod.rs): a Worker owning one *)
(* consumer thread that runs poll() over an unbounded mpsc channel of      *)
(* Option<T>, Scheduler handles used by producer threads, and the shared   *)
(* AtomicUsize live-task counter.                                          *)
(*                                                                         *)
(* Every atomic step of the code that touches shared state (a channel      *)
(* send or receive, a fetch_add or fetch_sub) is one action, so that the   *)
(* interleavings of producers and the consumer are the ones of the code.   *)
(*                                                                         *)
(* Model of raftstore::store::worker::merge                                *)
(* (src/src/raftstore/store/worker/merge.rs): the merge coordinator        *)
(* (Runner) with its own task queue and the resolver it hands its          *)
(* continuations to, and next_peer.                                        *)
(*                                                                         *)
(* The parts have their own variables and their own specifications; a      *)
(* specification of one part leaves the variables of the others alone.     *)
(***************************************************************************)
EXTENDS Integers, Sequences, FiniteSets

(* ------------------------------ bounds --------------------------------- *)

\* schedule() calls made in all, by all producer threads together
MaxTasks == 3
\* largest batch_size handed to start_batch
MaxBatch == 2
\* batch_size of the batch scenario, which schedules twice as many tasks
ScenarioBatch == 2

\* The thread that owns the Worker (start, schedule, stop need the Worker
\* itself) and one thread holding a Scheduler clone.
Owner == "owner"
Producers == {"owner", "clone"}

\* AtomicUsize arithmetic wraps; the width is scaled down from 2^64.
UsizeModulus == 65536

BatchSizes == 0..MaxBatch

\* Handlers: a Runnable behind the blanket BatchRunnable adapter (runs and
\* drains the items one by one), or a BatchRunnable of its own that takes
\* the whole batch in one call and leaves the Vec as it is (BatchRunner of
\* the tests).
RunnerKinds == {"runnable", "batch"}

(* ------------------------------ values --------------------------------- *)

Task(p, n) == [p |-> p, n |-> n]
NoTask == [p |-> "nobody", n |-> 0]
Some(t) == [some |-> TRUE, t |-> t]
NoneV == [some |-> FALSE, t |-> NoTask]

Range(s) == {s[i] : i \in 1..Len(s)}
Occurrences(s, x) == Cardinality({i \in 1..Len(s) : s[i] = x})

VARIABLES
    chan,        \* the mpsc channel: values sent and not yet received
    receiver,    \* where the Receiver is: "worker", "thread" or "dropped"
    handle,      \* Worker.handle: "none" or "some"
    counter,     \* the shared AtomicUsize
    pc,          \* consumer thread: "nothread", "recv", "fill", "sub", "run", "ran", "exit"
    keep_going,  \* poll's local
    buffer,      \* poll's local Vec
    batch_size,  \* poll's argument
    runner,      \* which kind of handler poll was given
    ppc,         \* per producer: "idle", or "sent" between send and fetch_add
    sub,         \* per producer: schedule() calls begun so far
    rejected,    \* schedule() calls that returned Err(Stopped(t)): given and carried task
    handled,     \* tasks in the order the handler got them
    batches,     \* length of the batch of each run_batch call
    spawned,     \* consumer threads spawned so far
    lastStart,   \* outcome of the last start call on the Worker
    lastStop,    \* what the last stop() returned
    atStop       \* snapshot taken when stop() sent the sentinel

vars == <<chan, receiver, handle, counter, pc, keep_going, buffer, batch_size,
          runner, ppc, sub, rejected, handled, batches, spawned, lastStart,
          lastStop, atStop>>

consumerVars == <<pc, keep_going, buffer, batch_size, runner, handled, batches>>
workerVars == <<receiver, handle, spawned, lastStart, lastStop, atStop>>
producerVars == <<ppc, sub, rejected>>

VARIABLES
    orig,          \* the SuspendRegion task that began the handshake
    world,         \* what the network and the resolver do in this run
    mq,            \* the coordinator's own task queue (its Worker's channel)
    resolverQ,     \* ResolveTasks accepted by the resolver and not yet run
    resolverAlive, \* whether the resolver's Worker still accepts tasks
    mtrace,        \* what the coordinator and the resolver did, in order
    emitted        \* tasks submitted to the coordinator's queue, in order

mergeVars == <<orig, world, mq, resolverQ, resolverAlive, mtrace, emitted>>

VARIABLES
    msg_id,        \* RaftRpcClient.msg_id, the AtomicUsize
    core_lock,     \* the thread holding the Mutex of RaftRpcClient.core
    stream,        \* RaftRpcClientCore.stream: a connection, or NoStream
    cl,            \* each calling thread: where it is in send and its locals
    wire,          \* what the callers did on the client, in order
    conns          \* connections opened so far

rpcVars == <<msg_id, core_lock, stream, cl, wire, conns>>

\* the variables of the other parts, as seen from the Worker
notWorkerVars == <<mergeVars, rpcVars>>
\* the variables of the other parts, as seen from the coordinator
notMergeVars == <<vars, rpcVars>>
\* the variables of the other parts, as seen from the RPC client
notRpcVars == <<vars, mergeVars>>
allVars == <<vars, mergeVars, rpcVars>>

NotStopped == [called |-> FALSE, sub |-> [p \in Producers |-> 0], ok |-> {}, buffered |-> {}]

(* --------------------------- derived sets ------------------------------ *)

\* schedule() calls begun so far
Calls == sub["owner"] + sub["clone"]
\* the task of producer p's call in progress
InFlight(p) == Task(p, sub[p])
\* tasks whose schedule() call has begun
Begun == UNION {{Task(p, n) : n \in 1..sub[p]} : p \in Producers}
Rejected == {r.given : r \in rejected}
\* tasks that were appended to the channel
Sent == Begun \ Rejected
\* tasks whose schedule() call returned Ok
Accepted == Sent \ {InFlight(p) : p \in {q \in Producers : ppc[q] = "sent"}}
InChan == {v.t : v \in {w \in Range(chan) : w.some}}
\* tasks the consumer has received
Received == Sent \ InChan
\* tasks of batches whose fetch_sub has been done
Pulled == Received \ (IF pc \in {"fill", "sub"} THEN Range(buffer) ELSE {})
SentinelRead == atStop.called /\ NoneV \notin Range(chan)

(* ------------------------- the code's pieces --------------------------- *)

\* bug: send fails whenever no consumer thread holds the Receiver
SendFails_noThread(rcv) == rcv # "thread"
\* Sender::send fails only when the Receiver has been dropped
SendFails(rcv) == rcv = "dropped"

FetchAdd(c, n) == (c + n) % UsizeModulus
\* bug: the counter goes down by one per batch instead of by buffer.len()
FetchSub_oncePerBatch(c, n) == (c - 1) % UsizeModulus
FetchSub(c, n) == (c - n) % UsizeModulus

\* bug: the new item goes to the front of the Vec
Push_front(buf, t) == <<t>> \o buf
\* Vec::push
Push(buf, t) == Append(buf, t)

\* Scheduler::is_busy
Scheduler_is_busy(c) == c > 0
\* bug: the handle is not looked at
Worker_is_busy_counterOnly(h, c) == Scheduler_is_busy(c)
\* Worker::is_busy
Worker_is_busy(h, c) == h = "none" \/ Scheduler_is_busy(c)

\* bug: start_batch spawns whatever the state of the Worker
AlreadyStarted_never(rcv) == FALSE
\* start_batch's test for "has been started"
AlreadyStarted(rcv) == rcv # "worker"

\* the task handed back in Err(Stopped(t))
StoppedTask(t) == t

\* bug: the inner loop takes one item more than batch_size
PcAfterPush_onePast(buf, bs) == IF Len(buf) <= bs THEN "fill" ELSE "sub"
\* poll: the inner loop's condition, buffer.len() < batch_size
PcAfterPush(buf, bs) == IF Len(buf) < bs THEN "fill" ELSE "sub"
\* bug: the sentinel read while filling does not end the outer loop
KeepGoingAfterSentinel_forgotten == TRUE
\* bug: the sentinel read while filling returns at once, like the one read by recv
PcAfterFillSentinel_return == "exit"
\* poll: Ok(None) while filling: keep_going = false, break to the fetch_sub
KeepGoingAfterSentinel == FALSE
PcAfterFillSentinel == "sub"
\* bug: the outer loop never ends
PcAfterBatch_loopForever(keep) == "recv"
\* poll: the outer loop's condition
PcAfterBatch(keep) == IF keep THEN "recv" ELSE "exit"
\* the Receiver is owned by poll and dropped when poll returns
ReceiverAt(p) == IF p = "exit" THEN "dropped" ELSE "thread"

(* ------------------------------- Init ---------------------------------- *)

\* Worker::new
Init ==
    /\ chan = <<>>
    /\ receiver = "worker"
    /\ handle = "none"
    /\ counter = 0
    /\ pc = "nothread"
    /\ keep_going = TRUE
    /\ buffer = <<>>
    /\ batch_size = 1
    /\ runner = "runnable"
    /\ ppc = [p \in Producers |-> "idle"]
    /\ sub = [p \in Producers |-> 0]
    /\ rejected = {}
    /\ handled = <<>>
    /\ batches = <<>>
    /\ spawned = 0
    /\ lastStart = "never"
    /\ lastStop = "never"
    /\ atStop = NotStopped

(* ------------------------------ Worker --------------------------------- *)

\* Worker::start_batch(runner, bs) by the owner; ok = whether the thread
\* could be created.
StartBatchWith(kind, bs, ok) ==
    /\ ppc[Owner] = "idle"
    /\ IF AlreadyStarted(receiver)
         THEN /\ lastStart' = "noop_ok"
              /\ UNCHANGED <<receiver, handle, spawned, pc, batch_size, runner>>
         ELSE IF ok
           THEN /\ receiver' = "thread"
                /\ handle' = "some"
                /\ spawned' = spawned + 1
                /\ pc' = "recv"
                /\ batch_size' = bs
                /\ runner' = kind
                /\ lastStart' = "spawned_ok"
           ELSE \* the closure that owns rx is dropped with the failed spawn
                /\ receiver' = "dropped"
                /\ lastStart' = "io_error"
                /\ UNCHANGED <<handle, spawned, pc, batch_size, runner>>
    /\ UNCHANGED <<chan, counter, keep_going, buffer, handled, batches,
                   producerVars, lastStop, atStop>>

\* Worker::start(runner) = start_batch(runner, 1) with a Runnable
Start == \E ok \in BOOLEAN : StartBatchWith("runnable", 1, ok)

StartBatch == \E kind \in RunnerKinds, bs \in BatchSizes, ok \in BOOLEAN :
                 StartBatchWith(kind, bs, ok)

\* Worker::stop by the owner
Stop ==
    /\ ppc[Owner] = "idle"
    /\ IF handle = "none"
         THEN /\ lastStop' = "None"
              /\ UNCHANGED <<chan, handle, atStop>>
         ELSE /\ chan' = IF SendFails(receiver) THEN chan ELSE Append(chan, NoneV)
              /\ handle' = "none"
              /\ lastStop' = "handle"
              /\ atStop' = [called |-> TRUE, sub |-> sub, ok |-> Accepted,
                            buffered |-> InChan]
    /\ UNCHANGED <<receiver, counter, consumerVars, producerVars, spawned, lastStart>>

(* ----------------------------- Scheduler ------------------------------- *)

\* Scheduler::schedule, first half: self.sender.send(Some(task)), in a run
\* of at most max calls
ScheduleSendUpTo(p, max) ==
    /\ ppc[p] = "idle"
    /\ Calls < max
    /\ sub' = [sub EXCEPT ![p] = @ + 1]
    /\ LET t == Task(p, sub[p] + 1) IN
         IF SendFails(receiver)
           THEN /\ rejected' = rejected \cup {[given |-> t, carried |-> StoppedTask(t)]}
                /\ UNCHANGED <<chan, ppc>>
           ELSE /\ chan' = Append(chan, Some(t))
                /\ ppc' = [ppc EXCEPT ![p] = "sent"]
                /\ UNCHANGED rejected
    /\ UNCHANGED <<counter, consumerVars, workerVars>>

ScheduleSend(p) == ScheduleSendUpTo(p, MaxTasks)

\* Scheduler::schedule, second half: self.counter.fetch_add(1), Ok(())
ScheduleAdd(p) ==
    /\ ppc[p] = "sent"
    /\ counter' = FetchAdd(counter, 1)
    /\ ppc' = [ppc EXCEPT ![p] = "idle"]
    /\ UNCHANGED <<chan, sub, rejected, consumerVars, workerVars>>

Schedule == \E p \in Producers : ScheduleSend(p) \/ ScheduleAdd(p)

(* -------------------------------- poll --------------------------------- *)

\* let t = rx.recv(); blocks while the channel is empty (the Worker keeps a
\* Sender, so the channel is never disconnected for the receiver)
Recv ==
    /\ pc = "recv"
    /\ chan # <<>>
    /\ chan' = Tail(chan)
    /\ LET v == Head(chan) IN
         IF v.some
           THEN /\ buffer' = Push(buffer, v.t)
                /\ pc' = PcAfterPush(buffer', batch_size)
                /\ UNCHANGED receiver
           ELSE /\ pc' = "exit"
                /\ receiver' = ReceiverAt(pc')
                /\ UNCHANGED buffer
    /\ UNCHANGED <<handle, counter, keep_going, batch_size, runner, handled,
                   batches, producerVars, spawned, lastStart, lastStop, atStop>>

\* one rx.try_recv() of the inner loop
Fill ==
    /\ pc = "fill"
    /\ IF chan = <<>>
         THEN /\ pc' = "sub"
              /\ UNCHANGED <<chan, buffer, keep_going>>
         ELSE /\ chan' = Tail(chan)
              /\ LET v == Head(chan) IN
                   IF v.some
                     THEN /\ buffer' = Push(buffer, v.t)
                          /\ pc' = PcAfterPush(buffer', batch_size)
                          /\ UNCHANGED keep_going
                     ELSE /\ keep_going' = KeepGoingAfterSentinel
                          /\ pc' = PcAfterFillSentinel
                          /\ UNCHANGED buffer
    /\ receiver' = ReceiverAt(pc')
    /\ UNCHANGED <<handle, counter, batch_size, runner, handled, batches,
                   producerVars, spawned, lastStart, lastStop, atStop>>

\* counter.fetch_sub(buffer.len())
Sub ==
    /\ pc = "sub"
    /\ counter' = FetchSub(counter, Len(buffer))
    /\ batches' = Append(batches, Len(buffer))
    /\ pc' = "run"
    /\ UNCHANGED <<chan, keep_going, buffer, batch_size, runner, handled,
                   producerVars, workerVars>>

\* runner.run_batch(&mut buffer): the adapter runs the first item left in the
\* Vec; a batch handler takes them all at once
RunBatch ==
    /\ pc = "run"
    /\ buffer # <<>>
    /\ IF runner = "runnable"
         THEN /\ handled' = Append(handled, Head(buffer))
              /\ buffer' = Tail(buffer)
              /\ UNCHANGED pc
         ELSE /\ handled' = handled \o buffer
              /\ pc' = "ran"
              /\ UNCHANGED buffer
    /\ UNCHANGED <<chan, counter, keep_going, batch_size, runner, batches,
                   producerVars, workerVars>>

\* run_batch has returned: buffer.clear() and the outer loop's test
BatchDone ==
    /\ \/ pc = "run" /\ buffer = <<>>
       \/ pc = "ran"
    /\ buffer' = <<>>
    /\ pc' = PcAfterBatch(keep_going)
    /\ receiver' = ReceiverAt(pc')
    /\ UNCHANGED <<chan, handle, counter, keep_going, batch_size, runner, handled,
                   batches, producerVars, spawned, lastStart, lastStop, atStop>>

Poll == Recv \/ Fill \/ Sub \/ RunBatch \/ BatchDone

(* --------------------------- batch scenario ---------------------------- *)

\* test_batch: the owner starts the Worker with a batch handler and
\* batch_size ScenarioBatch, schedules 2 * ScenarioBatch tasks one after the
\* other and stops the Worker.
BatchStart ==
    /\ lastStart = "never"
    /\ StartBatchWith("batch", ScenarioBatch, TRUE)

BatchSchedule ==
    /\ lastStart # "never"
    /\ ScheduleSendUpTo(Owner, 2 * ScenarioBatch) \/ ScheduleAdd(Owner)

BatchStop ==
    /\ sub[Owner] = 2 * ScenarioBatch
    /\ lastStop = "never"
    /\ Stop

(* --------------------- merge coordinator: values ----------------------- *)

\* peers in the largest region
MaxPeers == 3
\* SuspendRegion tasks the coordinator handles in one run
MaxSuspends == 5

Peer(i) == [id |-> i, store_id |-> 10 + i]
NoPeer == [id |-> -1, store_id |-> -1]
\* a leader hint that is no peer of the region
Outsider == [id |-> 0, store_id |-> 10]
\* a leader hint with the id of the region's peer 1, on another store
Moved == [id |-> 1, store_id |-> 10]
RegionPeers == {Peer(i) : i \in 1..MaxPeers}
HintPeers == RegionPeers \cup {Outsider, Moved}

\* peer lists: peer ids are unique within a region; listed by rising or
\* by falling id, so that a peer's index is not its id
PeerLists == {s \in UNION {[1..n -> RegionPeers] : n \in 0..MaxPeers} :
                 \/ \A i, j \in 1..Len(s) : i < j => s[i].id < s[j].id
                 \/ \A i, j \in 1..Len(s) : i < j => s[i].id > s[j].id}

Region(id, peers) == [id |-> id, peers |-> peers]
NoRegion == Region(-1, <<>>)
\* the region and peer that control the merge
LocalPeer == [id |-> 100, store_id |-> 110]
LocalRegion == Region(2, <<LocalPeer>>)

\* the address of a task or event that carries none
NoAddr == [store |-> 0]
\* the resolver's answer for a store it can resolve
AddrOf(store_id) == [store |-> store_id]

NoContext == [task_type |-> "None", region |-> NoRegion, peer |-> NoPeer,
              local_region |-> NoRegion, local_peer |-> NoPeer, address |-> NoAddr]

\* struct TaskContext
TaskContext(task_type, region, peer, local_region, local_peer, address) ==
    [task_type |-> task_type, region |-> region, peer |-> peer,
     local_region |-> local_region, local_peer |-> local_peer, address |-> address]

\* enum Task: every variant as a record of one shape, the fields a variant
\* does not have left empty
SuspendRegionTask(region, leader, local_region, local_peer) ==
    [type |-> "SuspendRegion", region |-> region, peer |-> leader,
     local_region |-> local_region, local_peer |-> local_peer, context |-> NoContext]
CommitMergeTask(region, peer) ==
    [type |-> "CommitMerge", region |-> region, peer |-> peer,
     local_region |-> NoRegion, local_peer |-> NoPeer, context |-> NoContext]
ShutdownRegionTask(region, leader) ==
    [type |-> "ShutdownRegion", region |-> region, peer |-> leader,
     local_region |-> NoRegion, local_peer |-> NoPeer, context |-> NoContext]
AfterResolveTask(context) ==
    [type |-> "AfterResolve", region |-> NoRegion, peer |-> NoPeer,
     local_region |-> NoRegion, local_peer |-> NoPeer, context |-> context]

\* what RaftRpcClient::send_suspend_region can return: Ok, the generic
\* error after the retries, or the protocol error of a mismatched id
SendResults == {"ok", "send_failed", "id_mismatch"}

\* peers.iter().position(|p| p.get_id() == id), counted from 1; 0 for None
Position(peers, id) ==
    IF \E i \in 1..Len(peers) : peers[i].id = id
      THEN CHOOSE i \in 1..Len(peers) :
             /\ peers[i].id = id
             /\ \A j \in 1..(i - 1) : peers[j].id # id
      ELSE 0

\* bug: no wrap-around, the last peer is followed by itself
next_peer_noWrap(region, last_peer) ==
    LET peers == region.peers
        index == Position(peers, last_peer.id)
    IN IF index # 0
         THEN peers[IF index < Len(peers) THEN index + 1 ELSE index]
         ELSE IF Len(peers) = 0 THEN last_peer ELSE peers[1]
\* bug: a failed attempt goes back to the first peer
next_peer_first(region, last_peer) ==
    IF Len(region.peers) = 0 THEN last_peer ELSE region.peers[1]
\* fn next_peer
next_peer(region, last_peer) ==
    LET peers == region.peers
        index == Position(peers, last_peer.id)
    IN IF index # 0
         THEN peers[(((index - 1) + 1) % Len(peers)) + 1]
         ELSE IF Len(peers) = 0 THEN last_peer ELSE peers[1]

\* entries of mtrace
Event(ev, peer, address) == [ev |-> ev, peer |-> peer, address |-> address]

Suspends == Cardinality({i \in 1..Len(mtrace) : mtrace[i].ev = "suspend"})

\* a peer the run treats as always reachable: its store always resolves
\* and a suspend RPC to it at that address always succeeds
ResolveChoices(store_id) ==
    IF world.good # NoPeer /\ store_id = world.good.store_id
      THEN {TRUE} ELSE BOOLEAN
SendChoices(peer, address) ==
    IF world.good # NoPeer /\ peer = world.good /\ address = AddrOf(world.good.store_id)
      THEN {"ok"} ELSE SendResults

\* no handshake: the state of the coordinator's variables in the
\* specifications of the other parts
MergeIdle ==
    /\ orig = SuspendRegionTask(NoRegion, NoPeer, NoRegion, NoPeer)
    /\ world = [good |-> NoPeer, resolverMayStop |-> FALSE]
    /\ mq = <<>>
    /\ resolverQ = <<>>
    /\ resolverAlive = TRUE
    /\ mtrace = <<>>
    /\ emitted = <<>>

\* One handshake: a SuspendRegion task for a region and a leader hint is on
\* the coordinator's queue; for the smallest regions a ShutdownRegion task
\* may be queued ahead of it.
MergeInit ==
    /\ \E peers \in PeerLists, hint \in HintPeers :
          orig = SuspendRegionTask(Region(1, peers), hint, LocalRegion, LocalPeer)
    /\ \E good \in Range(orig.region.peers) \cup {NoPeer}, stop \in BOOLEAN :
          world = [good |-> good, resolverMayStop |-> stop]
    /\ \E first \in {<<>>} \cup
                      (IF Len(orig.region.peers) <= 1
                         THEN {<<ShutdownRegionTask(orig.region, orig.peer)>>}
                         ELSE {}) :
          mq = first \o <<orig>>
    /\ resolverQ = <<>>
    /\ resolverAlive = TRUE
    /\ mtrace = <<>>
    /\ emitted = <<>>

(* -------------------- merge coordinator: operations -------------------- *)

\* cb, Ok(addr): AfterResolve with the captured values and the address
TaskAfterResolveOk(c, address) ==
    AfterResolveTask(TaskContext("SuspendRegion", c.region, c.peer,
                                 c.local_region, c.local_peer, address))
\* cb, Err(e): SuspendRegion for the next peer
TaskAfterResolveErr(c) ==
    SuspendRegionTask(c.region, next_peer(c.region, c.peer),
                      c.local_region, c.local_peer)
\* handle_after_resolve, Ok(()): CommitMerge against the controlling region
TaskAfterRpcOk(context) ==
    CommitMergeTask(context.local_region, context.local_peer)
\* bug: the retry is for the controlling region instead of the region to
\* suspend
TaskAfterRpcErr_localRegion(context) ==
    SuspendRegionTask(context.local_region, next_peer(context.region, context.peer),
                      context.local_region, context.local_peer)
\* bug: the next peer is tried at the address resolved for the last one
TaskAfterRpcErr_reuseAddress(context) ==
    AfterResolveTask(TaskContext("SuspendRegion", context.region,
                                 next_peer(context.region, context.peer),
                                 context.local_region, context.local_peer,
                                 context.address))
\* handle_after_resolve, Err(e): SuspendRegion for the next peer
TaskAfterRpcErr(context) ==
    SuspendRegionTask(context.region, next_peer(context.region, context.peer),
                      context.local_region, context.local_peer)

\* ensure_schedule(scheduler, task) on the coordinator's own Scheduler
ensure_schedule(task) ==
    /\ mq' = Append(mq, task)
    /\ emitted' = Append(emitted, task)

\* Runner::handle_suspend_region, as run by Runner::run: the store of the
\* leader hint is handed to the resolver with the callback cb, which owns
\* region, last_peer, local_region and local_peer; a resolver that takes no
\* more tasks only gets an error logged.
HandleSuspendRegion ==
    /\ mq # <<>>
    /\ Head(mq).type = "SuspendRegion"
    /\ Suspends < MaxSuspends
    /\ LET t == Head(mq) IN
         /\ mtrace' = Append(mtrace, Event("suspend", t.peer, NoAddr))
         /\ resolverQ' =
              IF resolverAlive
                THEN Append(resolverQ,
                            [store_id |-> t.peer.store_id,
                             cb |-> TaskContext("SuspendRegion", t.region, t.peer,
                                                t.local_region, t.local_peer, NoAddr)])
                ELSE resolverQ
    /\ mq' = Tail(mq)
    /\ UNCHANGED <<orig, world, resolverAlive, emitted>>

\* the resolver runs a ResolveTask and calls cb with its result, on its own
\* thread: cb submits AfterResolve with the address, or SuspendRegion for
\* the next peer
Resolve ==
    /\ resolverQ # <<>>
    /\ LET store_id == Head(resolverQ).store_id
           c == Head(resolverQ).cb
       IN \E ok \in ResolveChoices(store_id) :
            IF ok
              THEN /\ mtrace' = Append(mtrace, Event("resolve_ok", c.peer, AddrOf(store_id)))
                   /\ ensure_schedule(TaskAfterResolveOk(c, AddrOf(store_id)))
              ELSE /\ mtrace' = Append(mtrace, Event("resolve_err", c.peer, NoAddr))
                   /\ ensure_schedule(TaskAfterResolveErr(c))
    /\ resolverQ' = Tail(resolverQ)
    /\ UNCHANGED <<orig, world, resolverAlive>>

\* the resolver's Worker is stopped and its thread exits: from now on
\* resolve_scheduler.schedule returns Err(Stopped)
ResolverStops ==
    /\ world.resolverMayStop
    /\ resolverAlive
    /\ resolverQ = <<>>
    /\ resolverAlive' = FALSE
    /\ UNCHANGED <<orig, world, mq, resolverQ, mtrace, emitted>>

\* Runner::handle_after_resolve, as run by Runner::run
HandleAfterResolve ==
    /\ mq # <<>>
    /\ Head(mq).type = "AfterResolve"
    /\ LET context == Head(mq).context IN
         IF context.task_type = "SuspendRegion"
           THEN \E r \in SendChoices(context.peer, context.address) :
                  LET follow == IF r = "ok" THEN TaskAfterRpcOk(context)
                                            ELSE TaskAfterRpcErr(context)
                  IN /\ mtrace' = Append(mtrace,
                                         Event(IF r = "ok" THEN "rpc_ok" ELSE "rpc_err",
                                               context.peer, context.address))
                     /\ mq' = Append(Tail(mq), follow)
                     /\ emitted' = Append(emitted, follow)
           ELSE /\ mq' = Tail(mq)
                /\ UNCHANGED <<mtrace, emitted>>
    /\ UNCHANGED <<orig, world, resolverQ, resolverAlive>>

\* Runner::handle_commit_merge, as run by Runner::run: not implemented
HandleCommitMerge ==
    /\ mq # <<>>
    /\ Head(mq).type = "CommitMerge"
    /\ mq' = Tail(mq)
    /\ UNCHANGED <<orig, world, resolverQ, resolverAlive, mtrace, emitted>>

\* Runner::handle_shutdown_region, as run by Runner::run: not implemented
HandleShutdownRegion ==
    /\ mq # <<>>
    /\ Head(mq).type = "ShutdownRegion"
    /\ mq' = Tail(mq)
    /\ UNCHANGED <<orig, world, resolverQ, resolverAlive, mtrace, emitted>>

\* Runner::run on the coordinator's thread
Run == HandleSuspendRegion \/ HandleAfterResolve \/ HandleCommitMerge
          \/ HandleShutdownRegion

(* ----------------------------- RaftRpcClient --------------------------- *)

MAX_RAFT_RPC_SEND_RETRY_COUNT == 2
RAFT_RPC_RETRY_TIME_MILLIS == 50

\* RaftRpcClient::send calls made in one run, by all threads together
MaxSends == 2

\* the threads that share one RaftRpcClient
Callers == {"t1", "t2"}
NoCaller == "none"
NoStream == 0
NoMsgId == -1
\* the results of RaftRpcClient::send
RpcResults == {"ok", "send_failed", "id_mismatch"}

RpcEvent(c, id, ev, conn, out) ==
    [c |-> c, id |-> id, ev |-> ev, conn |-> conn, out |-> out]
CallerIdle == [pc |-> "idle", id |-> NoMsgId, attempt |-> 0, result |-> "none"]
Allocs == Cardinality({i \in 1..Len(wire) : wire[i].ev = "alloc"})

\* RaftRpcClient::new
RpcInit ==
    /\ msg_id = 0
    /\ core_lock = NoCaller
    /\ stream = NoStream
    /\ cl = [c \in Callers |-> CallerIdle]
    /\ wire = <<>>
    /\ conns = 0

\* msg_id.fetch_add(1, Relaxed): the counter after the call
MsgIdAfterAlloc_same(v) == v
MsgIdAfterAlloc(v) == (v + 1) % UsizeModulus

\* core.lock(): the Mutex is free
CanLock_always(holder) == TRUE
CanLock(holder) == holder = NoCaller

\* for _ in 0..MAX_RAFT_RPC_SEND_RETRY_COUNT
AttemptsLeft_oneMore(attempt) == attempt < MAX_RAFT_RPC_SEND_RETRY_COUNT + 1
AttemptsLeft(attempt) == attempt < MAX_RAFT_RPC_SEND_RETRY_COUNT

\* the ids a response may carry
ResponseIds == 0..MaxSends

\* after send_request returned Ok((id, resp)) on connection conn: where the
\* caller goes, with which result, and what self.stream holds
\* bug: the connection is put back whatever id came with the response
AfterResponse_keepStream(id, want, conn) ==
    IF id # want
      THEN [pc |-> "unlock", result |-> "id_mismatch", stream |-> conn]
      ELSE [pc |-> "unlock", result |-> "ok", stream |-> conn]
AfterResponse_retry(id, want, conn) ==
    IF id # want
      THEN [pc |-> "sleep", result |-> "none", stream |-> NoStream]
      ELSE [pc |-> "unlock", result |-> "ok", stream |-> conn]
AfterResponse(id, want, conn) ==
    IF id # want
      THEN [pc |-> "unlock", result |-> "id_mismatch", stream |-> NoStream]
      ELSE [pc |-> "unlock", result |-> "ok", stream |-> conn]

\* RaftRpcClient::send, first statement: alloc_msg_id
AllocMsgId(c) ==
    /\ cl[c].pc = "idle"
    /\ Allocs < MaxSends
    /\ cl' = [cl EXCEPT ![c] = [pc |-> "lock", id |-> msg_id, attempt |-> 0,
                                result |-> "none"]]
    /\ msg_id' = MsgIdAfterAlloc(msg_id)
    /\ wire' = Append(wire, RpcEvent(c, msg_id, "alloc", NoStream, "none"))
    /\ UNCHANGED <<core_lock, stream, conns>>

\* self.core.lock().unwrap(): blocks until the Mutex is free
Lock(c) ==
    /\ cl[c].pc = "lock"
    /\ CanLock(core_lock)
    /\ core_lock' = c
    /\ cl' = [cl EXCEPT ![c].pc = "loop"]
    /\ wire' = Append(wire, RpcEvent(c, cl[c].id, "lock", NoStream, "none"))
    /\ UNCHANGED <<msg_id, stream, conns>>

\* one turn of the loop with no stream: try_connect
TryConnect(c) ==
    /\ cl[c].pc = "loop"
    /\ AttemptsLeft(cl[c].attempt)
    /\ stream = NoStream
    /\ \E connected \in BOOLEAN :
          IF connected
            THEN /\ conns' = conns + 1
                 /\ stream' = conns + 1
                 /\ wire' = Append(wire, RpcEvent(c, cl[c].id, "connect", conns + 1, "ok"))
                 /\ UNCHANGED cl
            ELSE /\ cl' = [cl EXCEPT ![c].pc = "sleep"]
                 /\ wire' = Append(wire, RpcEvent(c, cl[c].id, "connect", NoStream, "err"))
                 /\ UNCHANGED <<stream, conns>>
    /\ UNCHANGED <<msg_id, core_lock>>

\* one turn of the loop with a stream: self.stream.take(), send_request,
\* and the check of the response's id
SendRequest(c) ==
    /\ cl[c].pc = "loop"
    /\ AttemptsLeft(cl[c].attempt)
    /\ stream # NoStream
    /\ \/ /\ cl' = [cl EXCEPT ![c].pc = "sleep"]
          /\ stream' = NoStream
          /\ wire' = Append(wire, RpcEvent(c, cl[c].id, "request", stream, "err"))
       \/ \E id \in ResponseIds :
             LET after == AfterResponse(id, cl[c].id, stream)
             IN /\ cl' = [cl EXCEPT ![c].pc = after.pc, ![c].result = after.result]
                /\ stream' = after.stream
                /\ wire' = Append(wire, RpcEvent(c, cl[c].id, "request", stream,
                                                 IF id = cl[c].id THEN "ok" ELSE "mismatch"))
    /\ UNCHANGED <<msg_id, core_lock, conns>>

\* thread::sleep(RAFT_RPC_RETRY_TIME_MILLIS); continue
Sleep(c) ==
    /\ cl[c].pc = "sleep"
    /\ cl' = [cl EXCEPT ![c].pc = "loop", ![c].attempt = @ + 1]
    /\ wire' = Append(wire, RpcEvent(c, cl[c].id, "sleep", NoStream,
                                     RAFT_RPC_RETRY_TIME_MILLIS))
    /\ UNCHANGED <<msg_id, core_lock, stream, conns>>

\* the loop is over: Err("send message to tikv failed")
GiveUp(c) ==
    /\ cl[c].pc = "loop"
    /\ ~AttemptsLeft(cl[c].attempt)
    /\ cl' = [cl EXCEPT ![c].pc = "unlock", ![c].result = "send_failed"]
    /\ UNCHANGED <<msg_id, core_lock, stream, wire, conns>>

\* core.send has returned: the guard is dropped and send returns
Return(c) ==
    /\ cl[c].pc = "unlock"
    /\ core_lock' = NoCaller
    /\ cl' = [cl EXCEPT ![c].pc = "idle"]
    /\ wire' = Append(wire, RpcEvent(c, cl[c].id, "return", NoStream, cl[c].result))
    /\ UNCHANGED <<msg_id, stream, conns>>

(* ------------------------------- Spec ---------------------------------- *)

Next == Start \/ StartBatch \/ Stop \/ Schedule \/ Poll

WorkerNext ==
    \/ Start /\ UNCHANGED notWorkerVars
    \/ StartBatch /\ UNCHANGED notWorkerVars
    \/ Stop /\ UNCHANGED notWorkerVars
    \/ Schedule /\ UNCHANGED notWorkerVars
    \/ Recv /\ UNCHANGED notWorkerVars
    \/ Fill /\ UNCHANGED notWorkerVars
    \/ Sub /\ UNCHANGED notWorkerVars
    \/ RunBatch /\ UNCHANGED notWorkerVars
    \/ BatchDone /\ UNCHANGED notWorkerVars

\* a new Worker, and nothing going on in the other parts
WorkerInit == Init /\ MergeIdle /\ RpcInit

\* the Worker, its Schedulers and its consumer thread
Spec == WorkerInit /\ [][WorkerNext]_allVars

\* The consumer is an OS thread of its own: it keeps taking steps while it
\* has one to take, whatever the producers do.
LiveSpec == Spec /\ WF_allVars(Poll /\ UNCHANGED notWorkerVars)

MergeNext ==
    \/ HandleSuspendRegion /\ UNCHANGED notMergeVars
    \/ HandleAfterResolve /\ UNCHANGED notMergeVars
    \/ HandleCommitMerge /\ UNCHANGED notMergeVars
    \/ HandleShutdownRegion /\ UNCHANGED notMergeVars
    \/ Resolve /\ UNCHANGED notMergeVars
    \/ ResolverStops /\ UNCHANGED notMergeVars

\* a handshake about to begin, and a new Worker that stays as it is
MergeStart == MergeInit /\ Init /\ RpcInit

\* one merge handshake on the coordinator and the resolver
MergeSpec == MergeStart /\ [][MergeNext]_allVars

\* The coordinator and the resolver each run on the thread of their own
\* Worker, which keeps taking tasks off its queue.
MergeLiveSpec ==
    /\ MergeSpec
    /\ WF_allVars(Run /\ UNCHANGED notMergeVars)
    /\ WF_allVars(Resolve /\ UNCHANGED notMergeVars)

BatchNext ==
    \/ BatchStart /\ UNCHANGED notWorkerVars
    \/ BatchSchedule /\ UNCHANGED notWorkerVars
    \/ BatchStop /\ UNCHANGED notWorkerVars
    \/ Recv /\ UNCHANGED notWorkerVars
    \/ Fill /\ UNCHANGED notWorkerVars
    \/ Sub /\ UNCHANGED notWorkerVars
    \/ RunBatch /\ UNCHANGED notWorkerVars
    \/ BatchDone /\ UNCHANGED notWorkerVars

\* the batch scenario on a new Worker
BatchSpec == WorkerInit /\ [][BatchNext]_allVars

RpcNext ==
    \/ (\E c \in Callers : AllocMsgId(c)) /\ UNCHANGED notRpcVars
    \/ (\E c \in Callers : Lock(c)) /\ UNCHANGED notRpcVars
    \/ (\E c \in Callers : TryConnect(c)) /\ UNCHANGED notRpcVars
    \/ (\E c \in Callers : SendRequest(c)) /\ UNCHANGED notRpcVars
    \/ (\E c \in Callers : Sleep(c)) /\ UNCHANGED notRpcVars
    \/ (\E c \in Callers : GiveUp(c)) /\ UNCHANGED notRpcVars
    \/ (\E c \in Callers : Return(c)) /\ UNCHANGED notRpcVars

\* a new RaftRpcClient, and nothing going on in the other parts
RpcStart == RpcInit /\ Init /\ MergeIdle

\* one RaftRpcClient shared by the calling threads
RpcSpec == RpcStart /\ [][RpcNext]_allVars

(* ------------------------------ claims --------------------------------- *)

Quiescent == \A p \in Producers : ppc[p] = "idle"
\* tasks whose schedule() call began after stop() had sent the sentinel
CalledAfterStop == {t \in Begun : atStop.called /\ t.n > atStop.sub[t.p]}
\* tasks that entered the channel behind the sentinel
SentAfterSentinel == Sent \cap CalledAfterStop

\* C1: on a started Worker, every task whose schedule() returned Ok before
\* stop() was called has been handed to the handler exactly once by the time
\* the consumer thread exits (tasks still in the channel at stop() included),
\* and no task is ever handed to the handler twice.
C1_AcceptedBeforeStopRunOnce ==
    /\ \A t \in Begun : Occurrences(handled, t) <= 1
    /\ pc = "exit" => \A t \in atStop.ok : Occurrences(handled, t) = 1

\* three tasks were accepted and still in the channel when stop() was called,
\* and the thread has exited
C1_Witness ==
    /\ pc = "exit"
    /\ batch_size >= 1
    /\ Cardinality(atStop.ok \cap atStop.buffered) >= 3
    /\ Len(handled) >= 3

\* C2: after stop() on a started Worker every later schedule() call returns
\* Stopped carrying the task it was given, whether or not the consumer thread
\* has exited.
C2_ScheduleAfterStopRejected ==
    \A t \in CalledAfterStop : [given |-> t, carried |-> t] \in rejected

\* C3: the live counter never wraps below zero and always equals the number
\* of tasks accepted by schedule() and not yet pulled off the channel as part
\* of a batch.
C3_CounterIsBacklog == counter = Cardinality(Accepted \ Pulled)

\* C4: from the return of an Ok schedule() until the consumer takes that task
\* off the channel, Scheduler::is_busy() is true.
C4_BusyWhileAcceptedTaskQueued ==
    (Accepted \cap InChan # {}) => Scheduler_is_busy(counter)

\* C5: no task that entered the channel behind the sentinel reaches the
\* handler; once the consumer has read the sentinel it takes nothing more off
\* the channel; and everything it received before the sentinel has been run
\* when it exits.
C5_NothingReadAfterSentinel ==
    /\ [](Range(handled) \cap SentAfterSentinel = {})
    /\ [](pc = "exit" => Received \subseteq Range(handled))
    /\ [][SentinelRead => Len(chan') >= Len(chan)]_vars

\* the sentinel was read while filling a batch, that batch was run, and a
\* task sent behind the sentinel is left in the channel
C5_Witness ==
    /\ pc = "exit"
    /\ ~keep_going
    /\ handled # <<>>
    /\ SentAfterSentinel \cap InChan # {}

\* C6: the handler gets the tasks of one producer in the order that producer
\* submitted them, inside a batch and across batches.
C6_PerProducerOrder ==
    \A i, j \in 1..Len(handled) :
        (i < j /\ handled[i].p = handled[j].p) => handled[i].n < handled[j].n

\* two tasks of one producer ran in one batch and a third task of the same
\* producer in another batch
C6_Witness ==
    /\ Len(handled) = 3
    /\ \A i \in 1..3 : handled[i].p = "clone"
    /\ Len(batches) = 2
    /\ \E i \in 1..2 : batches[i] = 2

C8_AtMostOneConsumer ==
    /\ [](spawned <= 1)
    /\ [][(lastStart' # lastStart /\ receiver # "worker") =>
            /\ lastStart' = "noop_ok"
            /\ UNCHANGED <<chan, receiver, handle, counter, consumerVars, spawned>>]_vars

\* start was called again on a Worker that had been started and stopped
C8_Witness ==
    /\ lastStart = "noop_ok"
    /\ spawned = 1
    /\ atStop.called

\* C9: after stop() on a started Worker the consumer thread eventually
\* exits, whatever the producers go on scheduling; the first stop() returns the
\* join handle when a thread was spawned and None when none was.
C9_ConsumerTerminates ==
    /\ [][(lastStop = "never" /\ lastStop' # "never") =>
            lastStop' = IF spawned = 1 THEN "handle" ELSE "None"]_vars
    /\ (atStop.called ~> pc = "exit")

\* the thread has exited although a producer scheduled behind the sentinel
C9_Witness ==
    /\ pc = "exit"
    /\ lastStop = "handle"
    /\ SentAfterSentinel # {}

\* C10: Worker::is_busy() is true before any thread was started, false right
\* after a successful start with nothing scheduled, true at every moment after
\* stop() has taken the handle, and otherwise follows the counter.
C10_WorkerIsBusy ==
    /\ spawned = 0 => Worker_is_busy(handle, counter)
    /\ (lastStart = "spawned_ok" /\ ~atStop.called /\ Calls = 0) =>
          ~Worker_is_busy(handle, counter)
    /\ atStop.called => Worker_is_busy(handle, counter)
    /\ (spawned = 1 /\ ~atStop.called) =>
          (Worker_is_busy(handle, counter) <=> counter > 0)

\* the handle was taken by stop(), the counter is 0 and the thread has exited
C10_Witness ==
    /\ atStop.called
    /\ pc = "exit"
    /\ counter = 0
    /\ handled # <<>>
    /\ Worker_is_busy(handle, counter)

(* ----------------------- claims: merge coordinator --------------------- *)

IsSuspend(e) == e.ev = "suspend"
IsEmitting(e) == e.ev \in {"resolve_ok", "resolve_err", "rpc_ok", "rpc_err"}
IsRpc(e) == e.ev \in {"rpc_ok", "rpc_err"}
\* the SuspendRegion tasks handled, the callbacks and RPCs that ended
Visits == SelectSeq(mtrace, IsSuspend)
EmitEvents == SelectSeq(mtrace, IsEmitting)
Rpcs == SelectSeq(mtrace, IsRpc)
CountType(tasks, type) == Cardinality({k \in 1..Len(tasks) : tasks[k].type = type})
Committed == CountType(emitted, "CommitMerge") > 0
\* what the handshake still has to run: its tasks on the coordinator's queue
\* and its requests at the resolver
Pending == Cardinality({k \in 1..Len(mq) :
                          mq[k].type \in {"SuspendRegion", "AfterResolve"}})
             + Len(resolverQ)
HasId(peers, id) == \E i \in 1..Len(peers) : peers[i].id = id
IdIndex(peers, id) == CHOOSE i \in 1..Len(peers) : peers[i].id = id
\* the peer after p in the round robin over peers
Successor(peers, p) ==
    IF Len(peers) = 0 THEN p
    ELSE IF HasId(peers, p.id) THEN peers[(IdIndex(peers, p.id) % Len(peers)) + 1]
    ELSE peers[1]

\* C11: the peers are tried in round-robin order from the leader hint, each
\* visit is one resolve followed by at most one RPC, and the first successful
\* RPC ends the phase with exactly one CommitMerge task carrying local_region
\* and local_peer of the original task, the last task submitted.
C11_RoundRobinUntilCommit ==
    /\ Len(Visits) >= 1 => Visits[1].peer = orig.peer
    /\ \A k \in 2..Len(Visits) :
          Visits[k].peer = Successor(orig.region.peers, Visits[k - 1].peer)
    /\ \A i \in 1..(Len(mtrace) - 1) :
          LET a == mtrace[i]
              b == mtrace[i + 1]
          IN /\ a.ev = "suspend" => (b.ev \in {"resolve_ok", "resolve_err"} /\ b.peer = a.peer)
             /\ a.ev = "resolve_ok" => (IsRpc(b) /\ b.peer = a.peer)
             /\ a.ev \in {"resolve_err", "rpc_err"} => b.ev = "suspend"
             /\ a.ev # "rpc_ok"
    /\ CountType(emitted, "CommitMerge") =
          Cardinality({i \in 1..Len(mtrace) : mtrace[i].ev = "rpc_ok"})
    /\ CountType(emitted, "CommitMerge") <= 1
    /\ \A k \in 1..Len(emitted) :
          emitted[k].type = "CommitMerge" =>
             /\ k = Len(emitted)
             /\ emitted[k] = CommitMergeTask(orig.local_region, orig.local_peer)

\* peers [P1, P2, P3], hint P1: resolve fails for P1, the RPC to P2 fails,
\* the RPC to P3 succeeds and CommitMerge is the last task submitted
C11_Witness ==
    /\ orig.region.peers = <<Peer(1), Peer(2), Peer(3)>>
    /\ orig.peer = Peer(1)
    /\ [i \in 1..Len(mtrace) |-> <<mtrace[i].ev, mtrace[i].peer>>] =
          << <<"suspend", Peer(1)>>, <<"resolve_err", Peer(1)>>,
             <<"suspend", Peer(2)>>, <<"resolve_ok", Peer(2)>>, <<"rpc_err", Peer(2)>>,
             <<"suspend", Peer(3)>>, <<"resolve_ok", Peer(3)>>, <<"rpc_ok", Peer(3)>> >>
    /\ emitted[Len(emitted)] = CommitMergeTask(LocalRegion, LocalPeer)

\* C12: every callback and every AfterResolve of the suspend phase submits
\* exactly one follow-up task, and until CommitMerge is submitted the
\* handshake always has exactly one thing left to run: it never stops without
\* a follow-up.
C12_AlwaysAFollowUp ==
    /\ Len(emitted) = Len(EmitEvents)
    /\ ~Committed => Pending = 1

\* C13: next_peer(region, peer) is the peer after the first one with peer's
\* id, wrapping around; the first peer when no peer has that id; peer itself
\* when the list is empty. For a non-empty list it is a member of the list,
\* and n applications from a member visit every peer once and come back.
RECURSIVE Iterate(_, _, _)
Iterate(region, p, k) == IF k = 0 THEN p ELSE next_peer(region, Iterate(region, p, k - 1))
C13_NextPeer ==
    LET region == orig.region
        peers == region.peers
        n == Len(peers)
    IN /\ \A p \in HintPeers :
            /\ \A i \in 1..n : peers[i].id = p.id =>
                                  next_peer(region, p) = peers[(i % n) + 1]
            /\ (n > 0 /\ ~HasId(peers, p.id)) => next_peer(region, p) = peers[1]
            /\ n = 0 => next_peer(region, p) = p
            /\ n > 0 => next_peer(region, p) \in Range(peers)
       /\ \A m \in Range(peers) :
            /\ {Iterate(region, m, k) : k \in 1..n} = Range(peers)
            /\ Iterate(region, m, n) = m

\* in a region of three peers the rotation went from the last peer of the
\* list to the first
C13_Witness ==
    /\ Len(orig.region.peers) = 3
    /\ \E k \in 2..Len(Visits) :
          /\ Visits[k - 1].peer = orig.region.peers[3]
          /\ Visits[k].peer = orig.region.peers[1]
    /\ \E k \in 2..Len(Visits) : Visits[k - 1].peer = Outsider

\* C19: when one peer of the region always resolves and always accepts the
\* suspend RPC and the resolver calls every callback, CommitMerge is
\* eventually submitted, after at most n + 1 SuspendRegion tasks (the
\* original one included) for a region of n peers, from any leader hint.
Reachable == world.good # NoPeer /\ ~world.resolverMayStop
SuspendTasks == 1 + CountType(emitted, "SuspendRegion")
C19_CommitWithinOneRound ==
    /\ [](Reachable => SuspendTasks <= Len(orig.region.peers) + 1)
    /\ Reachable ~> Committed

\* n = 3, a hint outside the list, and the reachable peer is the last one
\* tried: n + 1 SuspendRegion tasks, then CommitMerge
C19_Witness ==
    /\ Reachable
    /\ Committed
    /\ orig.peer = Outsider
    /\ Len(orig.region.peers) = 3
    /\ SuspendTasks = 4

\* C20: every suspend RPC comes right after a successful resolve of that
\* peer's store and goes to the address that resolve gave; the task submitted
\* after a failed RPC is SuspendRegion, and an AfterResolve task is only ever
\* submitted by a successful resolve, with its address.
C20_AddressUsedOnce ==
    /\ \A i \in 1..Len(mtrace) :
          IsRpc(mtrace[i]) =>
             /\ i > 1
             /\ mtrace[i - 1].ev = "resolve_ok"
             /\ mtrace[i - 1].peer = mtrace[i].peer
             /\ mtrace[i - 1].address = mtrace[i].address
             /\ mtrace[i].address = AddrOf(mtrace[i].peer.store_id)
    /\ Len(emitted) = Len(EmitEvents)
    /\ \A k \in 1..Len(emitted) :
          /\ EmitEvents[k].ev = "rpc_err" => emitted[k].type = "SuspendRegion"
          /\ emitted[k].type = "AfterResolve" =>
                /\ EmitEvents[k].ev = "resolve_ok"
                /\ emitted[k].context.address = EmitEvents[k].address
                /\ emitted[k].context.peer = EmitEvents[k].peer

\* an RPC failed and the next peer was resolved and sent to in its turn
C20_Witness ==
    /\ Len(Rpcs) >= 2
    /\ Rpcs[1].ev = "rpc_err"
    /\ Rpcs[1].address # Rpcs[2].address
    /\ CountType(emitted, "AfterResolve") = 2

(* ------------------------ claims: RaftRpcClient ------------------------- *)

\* the sends begun, each known by the id it allocated
SendIds == {wire[i].id : i \in {j \in 1..Len(wire) : wire[j].ev = "alloc"}}
\* what one send did, in order; what one caller did; the id allocations;
\* everything but the id allocations
SendTrace(id) == SelectSeq(wire, LAMBDA e : e.id = id)
CallerTrace(c) == SelectSeq(wire, LAMBDA e : e.c = c)
AllocTrace == SelectSeq(wire, LAMBDA e : e.ev = "alloc")
CoreTrace == SelectSeq(wire, LAMBDA e : e.ev # "alloc")
IsFailure(e) == e.ev \in {"connect", "request"} /\ e.out = "err"
\* an attempt: a turn of the loop that got as far as connecting or sending
IsAttempt(e) == e.ev = "request" \/ (e.ev = "connect" /\ e.out = "err")
IsConnected(e) == e.ev = "connect" /\ e.out = "ok"
IsRequest(e) == e.ev = "request"
IsSleep(e) == e.ev = "sleep"
IsReturn(e) == e.ev = "return"

\* C14: one send makes at most MAX_RAFT_RPC_SEND_RETRY_COUNT = 2 attempts: it
\* opens at most 2 connections and transmits at most 2 times; a failed
\* connect and a failed round trip each use up one attempt and are each
\* followed by the fixed backoff; when both attempts fail the send returns
\* the generic send-failed error.
C14_AtMostTwoAttempts ==
    \A id \in SendIds :
       LET t == SendTrace(id)
           failures == Len(SelectSeq(t, IsFailure))
           sleeps == Len(SelectSeq(t, IsSleep))
       IN /\ Len(SelectSeq(t, IsAttempt)) <= 2
          /\ Len(SelectSeq(t, IsConnected)) <= 2
          /\ Len(SelectSeq(t, IsRequest)) <= 2
          /\ \A k \in 1..(Len(t) - 1) :
                IsFailure(t[k]) => (t[k + 1].ev = "sleep" /\ t[k + 1].out = 50)
          /\ sleeps <= failures
          /\ \A k \in 1..Len(t) :
                IsReturn(t[k]) =>
                   /\ sleeps = failures
                   /\ t[k].out = "send_failed" <=> failures = 2

\* a send whose connect failed, then whose round trip failed, gave up after
\* two backoffs and two attempts
C14_Witness ==
    \E id \in SendIds :
       LET t == SendTrace(id)
       IN /\ t[Len(t)].ev = "return" /\ t[Len(t)].out = "send_failed"
          /\ \E k \in 1..Len(t) : IsFailure(t[k]) /\ t[k].ev = "connect"
          /\ \E k \in 1..Len(t) : IsFailure(t[k]) /\ t[k].ev = "request"
          /\ Len(SelectSeq(t, IsSleep)) = 2

\* C15: a response whose id is not the request's id ends the send at once
\* with the protocol error: nothing is sent again for it, no backoff is
\* taken, whatever is left of the retry budget, and it never succeeds.
C15_MismatchEndsSend ==
    \A id \in SendIds :
       LET t == SendTrace(id)
       IN \A k \in 1..Len(t) :
             (t[k].ev = "request" /\ t[k].out = "mismatch") =>
                \/ k = Len(t)
                \/ /\ k + 1 = Len(t)
                   /\ t[k + 1].ev = "return"
                   /\ t[k + 1].out = "id_mismatch"

\* the first attempt got a response with another id: the send returned the
\* protocol error with one attempt of its budget unused
C15_Witness ==
    \E id \in SendIds :
       LET t == SendTrace(id)
       IN /\ t[Len(t)].ev = "return" /\ t[Len(t)].out = "id_mismatch"
          /\ Len(SelectSeq(t, IsAttempt)) = 1
          /\ Len(SelectSeq(t, IsSleep)) = 0

\* C16: message ids are unique and increase in the order of allocation,
\* whatever the interleaving of the callers: a send's id is greater than
\* every id allocated before it; and everything one send does, each of its
\* attempts included, carries the one id it allocated.
C16_MsgIdsIncrease ==
    /\ LET a == AllocTrace
       IN \A k \in 1..(Len(a) - 1) : a[k].id < a[k + 1].id
    /\ \A c \in Callers :
          LET t == CallerTrace(c)
          IN \A k \in 1..Len(t) :
                t[k].ev # "alloc" => (k > 1 /\ t[k].id = t[k - 1].id)
    /\ \A c \in Callers : cl[c].pc # "idle" => cl[c].id < msg_id

\* two threads allocated one after the other, the second got the lock first
\* and sent twice under its id
C16_Witness ==
    /\ Len(wire) >= 3
    /\ wire[1].ev = "alloc" /\ wire[2].ev = "alloc" /\ wire[3].ev = "lock"
    /\ wire[1].c # wire[2].c
    /\ wire[3].c = wire[2].c
    /\ Len(SelectSeq(SendTrace(wire[2].id), IsRequest)) = 2

\* C17: concurrent callers of one client are serialized: the lock is held
\* from before the first attempt until the send returns, through every retry
\* and backoff; apart from allocating ids, the callers act on the client one
\* whole send at a time, and one caller follows another only between the
\* return of a send and the locking of the next.
C17_SendsSerialized ==
    /\ \A c \in Callers : cl[c].pc \in {"loop", "sleep", "unlock"} => core_lock = c
    /\ LET t == CoreTrace
       IN \A k \in 1..(Len(t) - 1) :
             \/ /\ t[k].ev = "return"
                /\ t[k + 1].ev = "lock"
             \/ /\ t[k].ev # "return"
                /\ t[k + 1].ev # "lock"
                /\ t[k + 1].c = t[k].c
                /\ t[k + 1].id = t[k].id

\* one thread is in its second backoff while the other waits for the lock
C17_Witness ==
    \E c, d \in Callers :
       /\ c # d
       /\ cl[c].pc = "sleep"
       /\ cl[c].attempt = 1
       /\ cl[d].pc = "lock"

(* ------------------------ claims: batch scenario ------------------------ *)

\* The inner loop of poll ends when the buffer is full, when it reads the
\* sentinel (keep_going becomes false and the batch is the last one), or
\* when try_recv finds the channel empty: a batch shorter than batch_size
\* that was not cut by the sentinel was cut by an empty channel. keep_going
\* tells of the batch being collected, or of the last one once it is pulled.
GapSeen ==
    \/ \E k \in 1..Len(batches) :
          /\ batches[k] < batch_size
          /\ k < Len(batches) \/ keep_going \/ pc \in {"fill", "sub"}
    \/ pc = "sub" /\ Len(buffer) < batch_size /\ keep_going
AllScheduled == sub[Owner] = 2 * ScenarioBatch /\ ppc[Owner] = "idle"
AllHandled == Len(handled) = 2 * ScenarioBatch

\* with no gap the handler is called exactly twice, each time with a batch
\* of batch_size tasks
TwoFullBatches ==
    (~GapSeen /\ AllHandled) =>
        /\ batches = <<ScenarioBatch, ScenarioBatch>>
        /\ handled = [i \in 1..(2 * ScenarioBatch) |-> Task(Owner, i)]
\* every batch handed to the handler has from 1 to batch_size tasks
BatchWithinSize ==
    \A k \in 1..Len(batches) : 1 <= batches[k] /\ batches[k] <= batch_size

\* C18 as stated: with no gap the handler gets exactly two batches of
\* batch_size tasks, once tasks have been accepted the counter is 0 only
\* after the second batch has been pulled, and every batch has from 1 to
\* batch_size tasks.
C18_AsStated ==
    /\ TwoFullBatches
    /\ (~GapSeen /\ Accepted # {} /\ counter = 0) => Len(batches) >= 2
    /\ BatchWithinSize

\* C18, amended: with no gap the handler gets exactly two batches of
\* batch_size tasks; once all 2 * batch_size tasks have been accepted the
\* counter is 0 exactly when the second batch has been pulled; and every
\* batch has from 1 to batch_size tasks.
C18_TwoBatchesThenIdle ==
    /\ TwoFullBatches
    /\ (~GapSeen /\ AllScheduled) => (counter = 0 <=> Len(batches) >= 2)
    /\ BatchWithinSize

\* the scenario ran to its end with no gap: two batches of batch_size, the
\* counter back at 0, the consumer gone
C18_Witness ==
    /\ ~GapSeen
    /\ AllScheduled
    /\ AllHandled
    /\ batches = <<ScenarioBatch, ScenarioBatch>>
    /\ counter = 0
    /\ pc = "exit"

(* --------------------------- claims: schedule --------------------------- *)

C22_HandshakeValuesKept ==
    /\ \A k \in 1..Len(emitted) :
          LET t == emitted[k]
          IN \/ /\ t.type = "SuspendRegion"
                /\ t.region = orig.region
                /\ t.local_region = orig.local_region
                /\ t.local_peer = orig.local_peer
             \/ /\ t.type = "AfterResolve"
                /\ t.context.task_type = "SuspendRegion"
                /\ t.context.region = orig.region
                /\ t.context.local_region = orig.local_region
                /\ t.context.local_peer = orig.local_peer
                /\ t.context.address = AddrOf(t.context.peer.store_id)
             \/ /\ t.type = "CommitMerge"
                /\ t.region = orig.local_region
                /\ t.peer = orig.local_peer
    /\ \A k \in 1..Len(resolverQ) :
          LET q == resolverQ[k]
          IN /\ q.store_id = q.cb.peer.store_id
             /\ q.cb.region = orig.region
             /\ q.cb.local_region = orig.local_region
             /\ q.cb.local_peer = orig.local_peer
    /\ \A i \in 1..Len(mtrace) :
          IsRpc(mtrace[i]) => mtrace[i].address = AddrOf(mtrace[i].peer.store_id)

\* a handshake that began with a hint outside the region, rotated after a
\* failed resolve and after a failed RPC, and ended with CommitMerge
C22_Witness ==
    /\ orig.peer = Outsider
    /\ Len(orig.region.peers) = 3
    /\ \E i \in 1..Len(mtrace) : mtrace[i].ev = "resolve_err"
    /\ \E i \in 1..Len(mtrace) : mtrace[i].ev = "rpc_err"
    /\ CountType(emitted, "SuspendRegion") >= 2
    /\ CountType(emitted, "AfterResolve") >= 2
    /\ Committed

(* ------------------- claims: RaftRpcClient, connection ------------------ *)

\* the connects and the round trips, in order
IsOnNetwork(e) == e.ev \in {"connect", "request"}
NetTrace == SelectSeq(wire, IsOnNetwork)

\* C23: when RaftRpcClientCore::send returns, the client holds a connection
\* exactly when it returns success. A connection on which a round trip failed
\* or brought a response with another id is dropped and never used again: the
\* next attempt or send connects anew; a connection on which a matched
\* exchange completed is the one the next send uses, without connecting.
C23_ConnectionKeptIffSuccess ==
    /\ \A c \in Callers :
          cl[c].pc = "unlock" => (stream # NoStream <=> cl[c].result = "ok")
    /\ LET t == CoreTrace
       IN (core_lock = NoCaller /\ Len(t) > 0) =>
             (stream # NoStream <=> t[Len(t)].out = "ok")
    /\ LET n == NetTrace
       IN /\ \A k \in 1..(Len(n) - 1) :
                IF n[k].out = "ok"
                  THEN /\ n[k + 1].ev = "request"
                       /\ n[k + 1].conn = n[k].conn
                  ELSE /\ n[k + 1].ev = "connect"
                       /\ n[k + 1].out = "ok" => n[k + 1].conn # n[k].conn
          /\ \A i, j \in 1..Len(n) :
                (i < j /\ n[i].ev = "request" /\ n[i].out # "ok") =>
                   n[j].conn # n[i].conn

\* a send succeeded on a first connection; the next send used it without
\* connecting, failed on it, connected anew, got a response with another id
\* and returned with no connection left
C23_Witness ==
    /\ [k \in 1..Len(NetTrace) |->
           <<NetTrace[k].ev, NetTrace[k].conn, NetTrace[k].out>>] =
          << <<"connect", 1, "ok">>, <<"request", 1, "ok">>,
             <<"request", 1, "err">>, <<"connect", 2, "ok">>,
             <<"request", 2, "mismatch">> >>
    /\ core_lock = NoCaller
    /\ stream = NoStream
    /\ wire[Len(wire)].ev = "return"
    /\ wire[Len(wire)].out = "id_mismatch"

====
